---- MODULE Spec2Model ----
(***************************************************************************)
(* A model of the cffi binding layer of ddcutil (src/src/cffi/ddc_cffi.py) *)
(* and of the scripts that drive it.  The native library (lib.ddca_...) is *)
(* the environment: every status-returning native function may report any  *)
(* status of Statuses, and hands out opaque tokens whose lifetime the      *)
(* model tracks (unused -> live -> released).                              *)
(***************************************************************************)
EXTENDS Integers, Sequences, FiniteSets, TLC

\* ------------------------------------------------------------------ bounds
\* Tokens the native library can hand out in one run.
MaxTok == 5
\* Handles an arbitrary caller acquires in one run of Spec.
MaxHandles == 3
\* The native library reports the statuses -MaxErr .. 0 (0 is success).
MaxErr == 1
\* Stand-in for the native library's ddca_max_max_tries().
MaxMaxTries == 2
\* Value-type tags a native value record may carry: 0 .. MaxTag.
MaxTag == 3
\* Displays the native library lists: 0 .. MaxDisplays.
MaxDisplays == 2
\* I/O mode tags a native display record may carry: 0 .. MaxIoMode.
MaxIoMode == 3
\* Entries of a native feature-value table before its end: 0 .. MaxEntries.
MaxEntries == 2
\* Value codes of a native feature-value table: 0 .. MaxCode.
MaxCode == 2
\* Feature codes a caller asks the name of: 0 .. MaxFeatureCode.
MaxFeatureCode == 257
\* Bit fields the native library returns: a pattern 0 .. MaxBitPattern
\* shifted left by 0 .. MaxShift places.
MaxBitPattern == 63
MaxShift == 11
\* Scheme names in the list pyenv.py filters: 0 .. MaxSchemes.
MaxSchemes == 3
\* Bytes or characters of an argument of the util.py functions: 0 .. MaxLen.
MaxLen == 3

\* ------------------------------------------------------- program constants
\* lib.DDCA_NON_TABLE_VCP_VALUE and lib.DDCA_TABLE_VCP_VALUE, copied from the
\* native header when the module is loaded.
NON_TABLE_VCP_VALUE == 1
TABLE_VCP_VALUE == 2
\* The feature the scripts read and write (brightness).
FeatureX10 == 16
\* lib.DDCA_IO_DEVI2C, lib.DDCA_IO_ADL, lib.DDCA_IO_USB: the values of the
\* enum DDCA_IO_Mode, in the order the module's comment quotes it.
IO_DEVI2C == 0
IO_ADL == 1
IO_USB == 2
\* Bytes of an EDID.
EdidSize == 128

Tok == 1..MaxTok
Statuses == (0 - MaxErr)..0
None == 0

VARIABLES
    sysver,   \* 2 or 3: the Python major version found when the module loads
    did,      \* the script's Display_Identifier: its c_did token, or None
    dref,     \* the script's Display_Ref: its c_dref token, or None
    dh,       \* the script's Display_Handle: its c_dh token, or None
    parsed,   \* the script's Parsed_Capabilities: its _c_pcaps token, or None
    native,   \* the native library: token lifetimes and the monitor's value
    tries,    \* the native library's max tries setting
    last,     \* what the last adapter operation did
    pc,       \* the test script's position ("-" when no script runs)
    vcpval,   \* the test script's variable vcpval
    c_table,  \* a native feature-value table: the entries in memory, in order
    fvt,      \* the Feature_Value_Table decoded from c_table, or NoRet
    dilist,   \* the native library's display list: ct and the info array
    result,   \* the list get_display_info_list returned
    finfo,    \* the native record of the script's Feature_Info, or NoRet
    listed,   \* history: the native info array when the list was asked for
    original, \* history: the monitor's (sh, sl) when the test script started
    sysconfig,    \* pyenv.py: the installation, library and scheme to path
    schemes,      \* pyenv.py: the module's list of scheme names
    libid,        \* pyenv.py: the library of the per-library loop
    pyenv_pc,     \* pyenv.py: the line it is at ("-" when it does not run)
    scheme_ndx1,  \* filter_identical_schemes: the outer index
    scheme_ndx2,  \* filter_identical_schemes: the inner index
    examined      \* history: the list each filter_identical_schemes call got

handleVars == <<did, dref, dh, parsed, native, tries>>
scriptVars == <<pc, vcpval, original>>
tableVars == <<c_table, fvt, finfo>>
listVars == <<dilist, result, listed>>
pyenvVars ==
    <<sysconfig, schemes, libid, pyenv_pc, scheme_ndx1, scheme_ndx2, examined>>
vars == <<sysver, handleVars, last, scriptVars, tableVars, listVars, pyenvVars>>

\* ------------------------------------------------------------ Python values
NoExc == [type |-> "none", status |-> 0, text |-> <<>>]
NoRet == [kind |-> "None"]
\* A Python exception that is no DDC_Exception (NameError, TypeError, ...).
PyExc(type) == [type |-> type, status |-> 0, text |-> <<>>]
\* The result of an expression that raises instead of yielding a value.
Raises(type) == [kind |-> "raise", excp |-> PyExc(type)]
\* The exception an expression's result stands for (NoExc for a value).
ExcOf(value) == IF value.kind = "raise" THEN value.excp ELSE NoExc

\* The native display list when no display is attached.
NoDisplays == [ct |-> 0, info |-> <<>>]

\* lib.ddca_rc_name / lib.ddca_rc_desc: the native library's own strings.
ddca_rc_name(status_code) == <<"name", status_code>>
ddca_rc_desc(status_code) == <<"desc", status_code>>

\* A C string, like a native table, is a non-empty sequence (<<"">> is the
\* empty string); NULL, the null pointer, is the empty sequence.
NULL == <<>>

\* from_cdata_string: ffi.string, which raises RuntimeError on a null
\* pointer, then decoded as UTF-8 under Python 3.
from_cdata_string(cdata_string) ==
    IF cdata_string = NULL
    THEN Raises("RuntimeError")
    ELSE [kind |-> "string", decoded |-> (sysver = 3), chars |-> cdata_string]

rc_name(status_code) == from_cdata_string(ddca_rc_name(status_code))
rc_desc(status_code) == from_cdata_string(ddca_rc_desc(status_code))

\* DDC_Exception with a hand-written message and no status.
DDC_Exception_handwritten(rc, msg) ==
    [type |-> "DDC_Exception", status |-> 0,
     text |-> <<"DDC status: ", <<"name", 0>>, " - ", <<"desc", 0>>>>]

\* DDC_Exception.__init__: "DDC status: %s - %s" % (rc_name(rc), rc_desc(rc)),
\* then ": " + msg when msg is given; self.status = rc.
DDC_Exception(rc, msg) ==
    [type |-> "DDC_Exception", status |-> rc,
     text |-> <<"DDC status: ", rc_name(rc).chars, " - ", rc_desc(rc).chars>>
              \o (IF msg # <<>> THEN <<": ", msg>> ELSE <<>>)]

\* create_ddc_exception: builds DDC_Exception(rc), prints, returns it.
create_ddc_exception(rc) == DDC_Exception(rc, <<>>)

\* The pattern "if rc != 0: raise create_ddc_exception(rc)".
RaiseIfNonZero(rc) == IF rc # 0 THEN create_ddc_exception(rc) ELSE NoExc

\* Native calls other than the wrapped one that building an exception makes
\* (rc_name and rc_desc, one each).
Lookups(excp) == IF excp.type = "DDC_Exception" THEN 2 ELSE 0

\* ---------------------------------------------------------- native library
Live(t) == t # None /\ native.tok[t] = "live"
Released(t) == t # None /\ native.tok[t] = "released"
Unused == {t \in Tok : native.tok[t] = "unused"}
NewTok == CHOOSE t \in Unused : \A u \in Unused : t <= u

Alloc(t) == [native EXCEPT !.tok[t] = "live"]
Release(t) == [native EXCEPT !.tok[t] = "released"]

\* What one adapter operation did: the token it passed to the native library
\* (None when it passed none), whether that token had been released before,
\* the operation's own arguments, the arguments it passed on to the wrapped
\* native call, what that call stored through its output parameter (NoRet
\* when the model does not follow it), the status that call reported, how many status-returning native calls the operation made, how
\* many other native calls, the exception raised to the caller (NoExc when it
\* returned normally) and the value returned.
Outcome(op, t, args, sent, out, rc, calls, others, excp, ret) ==
    [op |-> op, tok |-> t, stale |-> Released(t), args |-> args,
     sent |-> sent, out |-> out, rc |-> rc,
     calls |-> calls, others |-> others + Lookups(excp), excp |-> excp,
     ret |-> IF excp = NoExc THEN ret ELSE NoRet]

Loaded ==
    [op |-> "load", tok |-> None, stale |-> FALSE, args |-> <<>>,
     sent |-> <<>>, out |-> NoRet, rc |-> 0,
     calls |-> 0, others |-> 0, excp |-> NoExc, ret |-> NoRet]

\* pyenv.py is a script of its own: it does not run beside the adapter.
InitPyenvIdle ==
    /\ sysconfig = <<>> /\ schemes = <<>> /\ libid = "" /\ pyenv_pc = "-"
    /\ scheme_ndx1 = 0 /\ scheme_ndx2 = 0 /\ examined = <<>>

InitHandles ==
    /\ did = None /\ dref = None /\ dh = None /\ parsed = None
    /\ native \in [tok : {[t \in Tok |-> "unused"]}, mh : {0}, ml : {100},
                   sh : {0}, sl : {50}]
    /\ tries = 1

Init ==
    /\ sysver \in {2, 3}
    /\ InitPyenvIdle
    /\ InitHandles
    /\ last = Loaded
    /\ pc = "-" /\ vcpval = NoRet /\ original = NoRet
    /\ c_table = <<>> /\ fvt = NoRet /\ finfo = NoRet
    /\ dilist = NoDisplays /\ result = <<>> /\ listed = <<>>

\* --------------------------------------------------- Display_Identifier
\* Display_Identifier.create_by_dispno resolving the caller's existing wrapper
\* again, in place, when there is one, instead of building a new one.
create_by_dispno_in_place(dispno, rc) ==
    /\ Unused # {}
    /\ native' = IF rc # 0 THEN native
                 ELSE IF did # None THEN Alloc(did) ELSE Alloc(NewTok)
    /\ did' = IF rc = 0 /\ did = None THEN NewTok ELSE did
    /\ last' = Outcome("create_by_dispno", None, <<dispno>>, <<dispno>>, NoRet, rc, 1, 0,
                       RaiseIfNonZero(rc), [kind |-> "Display_Identifier"])
    /\ UNCHANGED <<dref, dh, parsed, tries>>

\* Display_Identifier.create_by_dispno; the caller binds the result to did.
create_by_dispno(dispno, rc) ==
    /\ Unused # {}
    /\ native' = IF rc = 0 THEN Alloc(NewTok) ELSE native
    /\ did' = IF rc = 0 THEN NewTok ELSE did
    /\ last' = Outcome("create_by_dispno", None, <<dispno>>, <<dispno>>, NoRet, rc, 1, 0,
                       RaiseIfNonZero(rc), [kind |-> "Display_Identifier"])
    /\ UNCHANGED <<dref, dh, parsed, tries>>

\* Display_Identifier.free: the native free is called on self.c_did.
Display_Identifier_free(rc) ==
    /\ did # None
    /\ native' = IF rc = 0 THEN Release(did) ELSE native
    /\ last' = Outcome("Display_Identifier.free", did, <<>>, <<>>, NoRet, rc, 1, 0,
                       RaiseIfNonZero(rc), NoRet)
    /\ UNCHANGED <<did, dref, dh, parsed, tries>>

\* Display_Identifier.__repr__: lib.ddca_did_repr(self.c_did).
Display_Identifier_repr ==
    /\ did # None
    /\ last' = Outcome("Display_Identifier.__repr__", did, <<>>, <<>>, NoRet, 0, 0, 1, NoExc,
                       from_cdata_string(<<"did_repr", did>>))
    /\ UNCHANGED handleVars

\* ----------------------------------------------------------- Display_Ref
\* Display_Ref.create_from_did(did); the caller binds the result to dref.
create_from_did(rc) ==
    /\ did # None
    /\ Unused # {}
    /\ native' = IF rc = 0 THEN Alloc(NewTok) ELSE native
    /\ dref' = IF rc = 0 THEN NewTok ELSE dref
    /\ last' = Outcome("create_from_did", did, <<>>, <<>>, NoRet, rc, 1, 0,
                       RaiseIfNonZero(rc), [kind |-> "Display_Ref"])
    /\ UNCHANGED <<did, dh, parsed, tries>>

\* Display_Ref.free
Display_Ref_free(rc) ==
    /\ dref # None
    /\ native' = IF rc = 0 THEN Release(dref) ELSE native
    /\ last' = Outcome("Display_Ref.free", dref, <<>>, <<>>, NoRet, rc, 1, 0,
                       RaiseIfNonZero(rc), NoRet)
    /\ UNCHANGED <<did, dref, dh, parsed, tries>>

\* Display_Ref.__repr__: lib.ddca_dref_repr(self.c_dref).
Display_Ref_repr ==
    /\ dref # None
    /\ last' = Outcome("Display_Ref.__repr__", dref, <<>>, <<>>, NoRet, 0, 0, 1, NoExc,
                       from_cdata_string(<<"dref_repr", dref>>))
    /\ UNCHANGED handleVars

\* -------------------------------------------------------- Display_Handle
\* Display_Handle.open(dref); the caller binds the result to dh.
open(rc) ==
    /\ dref # None
    /\ Unused # {}
    /\ native' = IF rc = 0 THEN Alloc(NewTok) ELSE native
    /\ dh' = IF rc = 0 THEN NewTok ELSE dh
    /\ last' = Outcome("open", dref, <<>>, <<>>, NoRet, rc, 1, 0, RaiseIfNonZero(rc),
                       [kind |-> "Display_Handle"])
    /\ UNCHANGED <<did, dref, parsed, tries>>

\* Display_Handle.close returning without reaching the native library.
close_without_native_call(rc) ==
    /\ dh # None
    /\ last' = Outcome("close", None, <<>>, <<>>, NoRet, 0, 0, 0, NoExc, NoRet)
    /\ UNCHANGED handleVars

\* Display_Handle.close with the status check left out.
close_unchecked(rc) ==
    /\ dh # None
    /\ native' = IF rc = 0 THEN Release(dh) ELSE native
    /\ last' = Outcome("close", dh, <<>>, <<>>, NoRet, rc, 1, 0, NoExc, NoRet)
    /\ UNCHANGED <<did, dref, dh, parsed, tries>>

\* Display_Handle.close
close(rc) ==
    /\ dh # None
    /\ native' = IF rc = 0 THEN Release(dh) ELSE native
    /\ last' = Outcome("close", dh, <<>>, <<>>, NoRet, rc, 1, 0, RaiseIfNonZero(rc), NoRet)
    /\ UNCHANGED <<did, dref, dh, parsed, tries>>

\* Display_Handle.__repr__: lib.ddca_dh_repr(self.c_dh).
Display_Handle_repr ==
    /\ dh # None
    /\ last' = Outcome("Display_Handle.__repr__", dh, <<>>, <<>>, NoRet, 0, 0, 1, NoExc,
                       from_cdata_string(<<"dh_repr", dh>>))
    /\ UNCHANGED handleVars

\* Display_Handle.get_capabilities_string: ffi.string(ps[0]), not decoded.
get_capabilities_string(rc) ==
    /\ dh # None
    /\ last' = Outcome("get_capabilities_string", dh, <<>>, <<>>, NoRet, rc, 1, 0,
                       RaiseIfNonZero(rc),
                       [kind |-> "string", decoded |-> FALSE, chars |-> <<"caps">>])
    /\ UNCHANGED handleVars

\* Display_Handle.get_mccs_version_id
get_mccs_version_id(rc) ==
    /\ dh # None
    /\ last' = Outcome("get_mccs_version_id", dh, <<>>, <<>>, NoRet, rc, 1, 0,
                       RaiseIfNonZero(rc), [kind |-> "version_id"])
    /\ UNCHANGED handleVars

\* Display_Handle.get_mccs_version: returns (ver.major, ver.minor).
get_mccs_version(rc) ==
    /\ dh # None
    /\ last' = Outcome("get_mccs_version", dh, <<>>, <<>>, NoRet, rc, 1, 0,
                       RaiseIfNonZero(rc), [kind |-> "version"])
    /\ UNCHANGED handleVars

\* Display_Handle.get_formatted_vcp_value: ffi.string(ps[0]), not decoded.
get_formatted_vcp_value(feature_code, rc) ==
    /\ dh # None
    /\ last' = Outcome("get_formatted_vcp_value", dh, <<feature_code>>,
                       <<feature_code>>, NoRet, rc, 1, 0,
                       RaiseIfNonZero(rc),
                       [kind |-> "string", decoded |-> FALSE,
                        chars |-> <<"formatted", native.sh, native.sl>>])
    /\ UNCHANGED handleVars

\* ------------------------------------------------------------ bit operations
RECURSIVE BitOr(_, _)
BitOr(a, b) ==
    IF a = 0 THEN b
    ELSE IF b = 0 THEN a
    ELSE (IF a % 2 = 1 \/ b % 2 = 1 THEN 1 ELSE 0) + 2 * BitOr(a \div 2, b \div 2)

RECURSIVE BitAnd(_, _)
BitAnd(a, b) ==
    IF a = 0 \/ b = 0 THEN 0
    ELSE (IF a % 2 = 1 /\ b % 2 = 1 THEN 1 ELSE 0) + 2 * BitAnd(a \div 2, b \div 2)

\* a << 8 and a >> 8 on non-negative integers.
Shl8(a) == a * 256
Shr8(a) == a \div 256

\* ------------------------------------------------------------- VCP values
\* Non_Table_Vcp_Value.__init__
Non_Table_Vcp_Value(opcode, mh, ml, sh, sl) ==
    [kind |-> "Non_Table_Vcp_Value", opcode |-> opcode,
     mh |-> mh, ml |-> ml, sh |-> sh, sl |-> sl]

\* Table_Vcp_Value.__init__
Table_Vcp_Value(opcode, bytestring) ==
    [kind |-> "Table_Vcp_Value", opcode |-> opcode, bytestring |-> bytestring]

\* Non_Table_Vcp_Value.__getattr__("cur_val"): self.sh << 8 | self.sl
cur_val(v) == BitOr(Shl8(v.sh), v.sl)
\* Non_Table_Vcp_Value.__getattr__("max_val"): self.mh << 8 | self.ml
max_val(v) == BitOr(Shl8(v.mh), v.ml)

\* Non_Table_Vcp_Value.__setattr__: "curval" and "maxval" are split into
\* their two bytes; any other name is stored in the instance as it is.
Non_Table_Vcp_Value_setattr(self, item, newval) ==
    IF item = "curval"
    THEN [self EXCEPT !.sh = Shr8(newval), !.sl = BitAnd(newval, 255)]
    ELSE IF item = "maxval"
    THEN [self EXCEPT !.mh = Shr8(newval), !.ml = BitAnd(newval, 255)]
    ELSE [a \in (DOMAIN self) \cup {item} |->
             IF a = item THEN newval ELSE self[a]]

\* Reading an attribute of a Non_Table_Vcp_Value: the instance's own
\* attributes come first, and __getattr__ is called only for a name the
\* instance does not hold.
Non_Table_Vcp_Value_getattr(self, item) ==
    IF item \in DOMAIN self
    THEN [kind |-> "int", val |-> self[item]]
    ELSE IF item = "cur_val"
    THEN [kind |-> "int", val |-> cur_val(self)]
    ELSE IF item = "max_val"
    THEN [kind |-> "int", val |-> max_val(self)]
    ELSE Raises("AttributeError")

\* The byte sequence the native library returns for a table feature.
ddca_table_bytes(feature_code) == <<"bytes", feature_code>>

\* The value record the native library fills in for a feature: its tag, the
\* four bytes of the monitor's reply (the non-table member of the union) and
\* the byte sequence of the table member.
Valrec(feature_code, value_type) ==
    [value_type |-> value_type, opcode |-> feature_code,
     mh |-> native.mh, ml |-> native.ml, sh |-> native.sh, sl |-> native.sl,
     bytes |-> ddca_table_bytes(feature_code)]

\* The tail of Display_Handle.get_vcp_value: the value record decoded.
vcp_value_from_valrec(valrec) ==
    IF valrec.value_type = NON_TABLE_VCP_VALUE
    THEN Non_Table_Vcp_Value(valrec.opcode, valrec.mh, valrec.ml,
                             valrec.sh, valrec.sl)
    ELSE Table_Vcp_Value(valrec.opcode, None)

\* Display_Handle.get_vcp_value(feature_code): value_type is the tag of the
\* record the native library returns.
get_vcp_value(feature_code, value_type, rc) ==
    /\ dh # None
    /\ last' = Outcome("get_vcp_value", dh, <<feature_code>>, <<feature_code>>,
                       IF rc = 0 THEN Valrec(feature_code, value_type) ELSE NoRet,
                       rc, 1, 0, RaiseIfNonZero(rc),
                       vcp_value_from_valrec(Valrec(feature_code, value_type)))
    /\ UNCHANGED handleVars

\* Display_Handle.set_nc_vcp_value, also reached from set_simple_nc_vcp_value
\* and set_continuous_vcp_value (op and args are the caller's).
set_nc_vcp_value(op, args, vcp_code, sh, sl, rc) ==
    /\ dh # None
    /\ native' = IF rc = 0 THEN [native EXCEPT !.sh = sh, !.sl = sl] ELSE native
    /\ last' = Outcome(op, dh, args, <<vcp_code, sh, sl>>, NoRet, rc, 1, 0,
                       RaiseIfNonZero(rc), NoRet)
    /\ UNCHANGED <<did, dref, dh, parsed, tries>>

\* Display_Handle.set_simple_nc_vcp_value
set_simple_nc_vcp_value(vcp_code, sl, rc) ==
    set_nc_vcp_value("set_simple_nc_vcp_value", <<vcp_code, sl>>, vcp_code, 0, sl, rc)

\* Display_Handle.set_continuous_vcp_value: sh = newval >> 8; sl = newval % 0xff
set_continuous_vcp_value(vcp_code, newval, rc) ==
    set_nc_vcp_value("set_continuous_vcp_value", <<vcp_code, newval>>, vcp_code,
                     Shr8(newval), newval % 255, rc)

\* ------------------------------------------------------ Feature_Value_Table
\* The entry that ends a native feature-value table.
Sentinel == [value_code |-> 0, value_name |-> NULL]

\* The loop of Feature_Value_Table.create_from_c_table from index ndx on, with
\* the entries collected so far.  c_table[ndx] past the end of the native
\* array is a read of memory the table does not own.
RECURSIVE scan_c_table(_, _, _)
scan_c_table(tbl, ndx, entries) ==
    IF ndx > Len(tbl)
    THEN [kind |-> "read past the end"]
    ELSE LET k == tbl[ndx].value_code
             v == tbl[ndx].value_name
         IN  IF k = 0 /\ v = NULL
             THEN [kind |-> "Feature_Value_Table", entries |-> entries]
             ELSE IF v = NULL
             THEN Raises("RuntimeError")
             ELSE scan_c_table(tbl, ndx + 1,
                      [c \in (DOMAIN entries) \cup {k} |->
                          IF c = k THEN from_cdata_string(v) ELSE entries[c]])

\* The loop ending at the first entry with value_code 0, whatever its name.
RECURSIVE scan_to_zero_code(_, _, _)
scan_to_zero_code(tbl, ndx, entries) ==
    IF ndx > Len(tbl)
    THEN [kind |-> "read past the end"]
    ELSE LET k == tbl[ndx].value_code
             v == tbl[ndx].value_name
         IN  IF k = 0
             THEN [kind |-> "Feature_Value_Table", entries |-> entries]
             ELSE IF v = NULL
             THEN Raises("RuntimeError")
             ELSE scan_to_zero_code(tbl, ndx + 1,
                      [c \in (DOMAIN entries) \cup {k} |->
                          IF c = k THEN from_cdata_string(v) ELSE entries[c]])

create_from_c_table_zero_code_ends(tbl) == scan_to_zero_code(tbl, 1, <<>>)

\* Feature_Value_Table.create_from_c_table (TLA+ sequences start at 1).
create_from_c_table(tbl) == scan_c_table(tbl, 1, <<>>)

\* The table the native library returns for a feature with simple values.
NativeSlTable ==
    <<[value_code |-> 1, value_name |-> <<"VGA-1">>],
      [value_code |-> 3, value_name |-> <<"DVI-1">>], Sentinel>>

\* Feature_Value_Table.create_by_query
create_by_query(feature_code, mccs_version_id, rc) ==
    /\ LET t == create_from_c_table(NativeSlTable) IN
       last' = Outcome("create_by_query", None, <<feature_code, mccs_version_id>>,
                       <<feature_code, mccs_version_id>>,
                       IF rc = 0 THEN NativeSlTable ELSE NoRet, rc, 1, 0,
                       IF rc # 0 THEN create_ddc_exception(rc) ELSE ExcOf(t), t)
    /\ UNCHANGED handleVars

\* Feature_Info.create_by_vcp_version
create_by_vcp_version(feature_code, mccs_version_id, rc) ==
    /\ last' = Outcome("create_by_vcp_version", None,
                       <<feature_code, mccs_version_id>>,
                       <<feature_code, mccs_version_id>>, NoRet, rc, 1, 0,
                       RaiseIfNonZero(rc), [kind |-> "Feature_Info"])
    /\ UNCHANGED handleVars

\* ------------------------------------------------------ Parsed_Capabilities
\* Parsed_Capabilities.create_from_string; the caller binds it to parsed.
create_from_string(rc) ==
    /\ Unused # {}
    /\ native' = IF rc = 0 THEN Alloc(NewTok) ELSE native
    /\ parsed' = IF rc = 0 THEN NewTok ELSE parsed
    /\ last' = Outcome("create_from_string", None, <<"caps">>, <<"caps">>, NoRet,
                       rc, 1, 0, RaiseIfNonZero(rc),
                       [kind |-> "Parsed_Capabilities"])
    /\ UNCHANGED <<did, dref, dh, tries>>

\* Parsed_Capabilities.free: lib.ddca_free_parsed_capabilities returns void.
Parsed_Capabilities_free ==
    /\ parsed # None
    /\ native' = Release(parsed)
    /\ last' = Outcome("Parsed_Capabilities.free", parsed, <<>>, <<>>, NoRet,
                       0, 0, 1, NoExc, NoRet)
    /\ UNCHANGED <<did, dref, dh, parsed, tries>>

\* Parsed_Capabilities.report(depth): returns void.
Parsed_Capabilities_report(depth) ==
    /\ parsed # None
    /\ last' = Outcome("Parsed_Capabilities.report", parsed, <<depth>>, <<depth>>,
                       NoRet, 0, 0, 1, NoExc, NoRet)
    /\ UNCHANGED handleVars

\* --------------------------------------------------------- retry management
\* lib.ddca_set_max_tries: the count is stored when it is at most
\* ddca_max_max_tries(), and refused with a non-zero status otherwise.
ddca_set_max_tries(ct) == IF ct >= 1 /\ ct <= MaxMaxTries THEN 0 ELSE 0 - 1

\* set_max_tries with the status of the native call ignored.
set_max_tries_unchecked(try_type, ct) ==
    LET rc == ddca_set_max_tries(ct) IN
    /\ tries' = IF rc = 0 THEN ct ELSE tries
    /\ last' = Outcome("set_max_tries", None, <<try_type, ct>>, <<try_type, ct>>,
                       NoRet, rc, 1, 0, NoExc, NoRet)
    /\ UNCHANGED <<did, dref, dh, parsed, native>>

\* set_max_tries: raises DDC_Exception(rc, "try_type=%d, ct=%d").
set_max_tries(try_type, ct) ==
    LET rc == ddca_set_max_tries(ct) IN
    /\ tries' = IF rc = 0 THEN ct ELSE tries
    /\ last' = Outcome("set_max_tries", None, <<try_type, ct>>, <<try_type, ct>>,
                       NoRet, rc, 1, 0,
                       IF rc # 0
                       THEN DDC_Exception(rc, <<"try_type=", try_type, "ct=", ct>>)
                       ELSE NoExc,
                       NoRet)
    /\ UNCHANGED <<did, dref, dh, parsed, native>>

\* get_max_tries: returns lib.ddca_get_max_tries(retry_type), no status.
get_max_tries(retry_type) ==
    /\ last' = Outcome("get_max_tries", None, <<retry_type>>, <<retry_type>>,
                       NoRet, 0, 0, 1, NoExc, [kind |-> "int", val |-> tries])
    /\ UNCHANGED handleVars

\* ------------------------------------------------------------- the callers
\* A caller is either free (pc = "-": any operation, in any order) or follows
\* a program: at label pc it makes the call Program[pc].op, goes on to
\* Program[pc].next when the call returns or raises an exception the line
\* catches, and ends ("aborted") on any other exception, as a script ends on
\* an uncaught exception.  binds tells whether the line assigns the result to
\* vcpval; arg is the line's literal argument where the operation takes one.
Line(label, op, arg, binds, catches, next) ==
    label :> [op |-> op, arg |-> arg, binds |-> binds, catches |-> catches,
              next |-> next]

\* The end-to-end scenario: create the identifier for display 2, resolve the
\* reference, open the handle, read feature 0x10, write 75, read again, close
\* the handle, free the reference, free the identifier.
ScenarioProgram ==
    Line("create", "create_by_dispno", 2, FALSE, {}, "resolve")
    @@ Line("resolve", "create_from_did", 0, FALSE, {}, "open")
    @@ Line("open", "open", 0, FALSE, {}, "read")
    @@ Line("read", "get_vcp_value", 16, TRUE, {}, "write")
    @@ Line("write", "set_continuous_vcp_value", 75, FALSE, {}, "read again")
    @@ Line("read again", "get_vcp_value", 16, TRUE, {}, "close")
    @@ Line("close", "close", 0, FALSE, {}, "free reference")
    @@ Line("free reference", "Display_Ref.free", 0, FALSE, {}, "free identifier")
    @@ Line("free identifier", "Display_Identifier.free", 0, FALSE, {}, "end")

\* The module-level sequence of test_ddc_cffi.py from its first use of a
\* display (line 110) to the read after its "Setting original value" step
\* (line 157), the calls of test_capabilities (lines 75-87) and of
\* test_feature_information (lines 100-104) in their place; a label is the
\* line of the call.  Only get_feature_name(0x0101) is inside a try block.
ScriptProgram ==
    Line("110", "create_by_dispno", 2, FALSE, {}, "111")
    @@ Line("111", "Display_Identifier.__repr__", 0, FALSE, {}, "114")
    @@ Line("114", "Display_Identifier.free", 0, FALSE, {}, "116")
    @@ Line("116", "create_by_dispno", 2, FALSE, {}, "118")
    @@ Line("118", "create_from_did", 0, FALSE, {}, "119")
    @@ Line("119", "Display_Ref.__repr__", 0, FALSE, {}, "121")
    @@ Line("121", "open", 0, FALSE, {}, "122")
    @@ Line("122", "Display_Handle.__repr__", 0, FALSE, {}, "75")
    @@ Line("75", "Display_Handle.__repr__", 0, FALSE, {}, "77")
    @@ Line("77", "get_capabilities_string", 0, FALSE, {}, "81")
    @@ Line("81", "create_from_string", 0, FALSE, {}, "85")
    @@ Line("85", "Parsed_Capabilities.report", 3, FALSE, {}, "87")
    @@ Line("87", "Parsed_Capabilities.free", 0, FALSE, {}, "100")
    @@ Line("100", "get_feature_name", 16, FALSE, {}, "101")
    @@ Line("101", "get_feature_name", 0, FALSE, {}, "102")
    @@ Line("102", "get_feature_name", 255, FALSE, {}, "104")
    @@ Line("104", "get_feature_name", 257, FALSE, {"OverflowError"}, "130")
    @@ Line("130", "get_mccs_version_id", 0, FALSE, {}, "136")
    @@ Line("136", "get_mccs_version", 0, FALSE, {}, "140")
    @@ Line("140", "get_formatted_vcp_value", 16, FALSE, {}, "145")
    @@ Line("145", "get_vcp_value", 16, TRUE, {}, "150")
    @@ Line("150", "set_continuous_vcp_value", 75, FALSE, {}, "151")
    @@ Line("151", "get_vcp_value", 16, TRUE, {}, "156")
    @@ Line("156", "set_simple_nc_vcp_value", 16, FALSE, {}, "157")
    @@ Line("157", "get_vcp_value", 16, TRUE, {}, "end")

Program == ScenarioProgram @@ ScriptProgram

\* The caller is free to call op, or its program calls op now.
At(op) == pc = "-" \/ (pc \in DOMAIN Program /\ Program[pc].op = op)

\* The argument of the call: any of free for a free caller, the line's
\* literal argument for a program.
Arg(free) == IF pc = "-" THEN free ELSE {Program[pc].arg}

\* A free caller acquires at most MaxHandles handles.
MayAcquire == pc # "-" \/ Cardinality(Tok \ Unused) < MaxHandles

\* What the caller does with the outcome of its call.
Caller ==
    /\ pc' = IF pc = "-" THEN pc
             ELSE IF last'.excp.type \in ({"none"} \cup Program[pc].catches)
             THEN Program[pc].next
             ELSE "aborted"
    /\ vcpval' = IF pc # "-" /\ Program[pc].binds /\ last'.excp = NoExc
                 THEN last'.ret
                 ELSE vcpval
    /\ UNCHANGED <<sysver, pyenvVars, original, tableVars, listVars>>

\* ------------------------------------------------------------------ actions
\* Each action is one adapter operation, with the status the native library
\* reports chosen freely.
CreateByDispno ==
    /\ At("create_by_dispno")
    /\ \E rc \in Statuses : \E dispno \in Arg({2}) :
           MayAcquire /\ create_by_dispno(dispno, rc) /\ Caller
DidFree ==
    /\ At("Display_Identifier.free")
    /\ \E rc \in Statuses : Display_Identifier_free(rc) /\ Caller
DidRepr ==
    /\ At("Display_Identifier.__repr__")
    /\ Display_Identifier_repr /\ Caller
CreateFromDid ==
    /\ At("create_from_did")
    /\ \E rc \in Statuses : MayAcquire /\ create_from_did(rc) /\ Caller
DrefFree ==
    /\ At("Display_Ref.free")
    /\ \E rc \in Statuses : Display_Ref_free(rc) /\ Caller
DrefRepr ==
    /\ At("Display_Ref.__repr__")
    /\ Display_Ref_repr /\ Caller
Open ==
    /\ At("open")
    /\ \E rc \in Statuses : MayAcquire /\ open(rc) /\ Caller
Close ==
    /\ At("close")
    /\ \E rc \in Statuses : close(rc) /\ Caller
DhRepr ==
    /\ At("Display_Handle.__repr__")
    /\ Display_Handle_repr /\ Caller
GetCapabilitiesString ==
    /\ At("get_capabilities_string")
    /\ \E rc \in Statuses : get_capabilities_string(rc) /\ Caller
GetMccsVersionId ==
    /\ At("get_mccs_version_id")
    /\ \E rc \in Statuses : get_mccs_version_id(rc) /\ Caller
GetMccsVersion ==
    /\ At("get_mccs_version")
    /\ \E rc \in Statuses : get_mccs_version(rc) /\ Caller
GetFormattedVcpValue ==
    /\ At("get_formatted_vcp_value")
    /\ \E rc \in Statuses : \E feature_code \in Arg({FeatureX10}) :
           get_formatted_vcp_value(feature_code, rc) /\ Caller
\* The tag of the native record is the native library's choice; for feature
\* 0x10, which the programs read, it is the non-table tag.
GetVcpValue ==
    /\ At("get_vcp_value")
    /\ \E rc \in Statuses : \E feature_code \in Arg({FeatureX10}) :
       \E value_type \in IF pc = "-" THEN 0..MaxTag ELSE {NON_TABLE_VCP_VALUE} :
           get_vcp_value(feature_code, value_type, rc) /\ Caller
\* The script's line 156 passes vcpval.sl.
SetSimpleNcVcpValue ==
    /\ At("set_simple_nc_vcp_value")
    /\ \E rc \in Statuses : \E sl \in IF pc = "-" THEN {75} ELSE {vcpval.sl} :
           set_simple_nc_vcp_value(FeatureX10, sl, rc) /\ Caller
SetNcVcpValue ==
    /\ At("set_nc_vcp_value")
    /\ \E rc \in Statuses :
           /\ set_nc_vcp_value("set_nc_vcp_value", <<FeatureX10, 0, 75>>,
                               FeatureX10, 0, 75, rc)
           /\ Caller
SetContinuousVcpValue ==
    /\ At("set_continuous_vcp_value")
    /\ \E rc \in Statuses : \E newval \in Arg({75, 300}) :
           set_continuous_vcp_value(FeatureX10, newval, rc) /\ Caller
CreateFromString ==
    /\ At("create_from_string")
    /\ \E rc \in Statuses : MayAcquire /\ create_from_string(rc) /\ Caller
ParsedFree ==
    /\ At("Parsed_Capabilities.free")
    /\ Parsed_Capabilities_free /\ Caller
ParsedReport ==
    /\ At("Parsed_Capabilities.report")
    /\ \E depth \in Arg({3}) : Parsed_Capabilities_report(depth) /\ Caller
SetMaxTries ==
    /\ At("set_max_tries")
    /\ \E ct \in 1..(MaxMaxTries + 1) : set_max_tries("WRITE_ONLY", ct) /\ Caller
GetMaxTries ==
    /\ At("get_max_tries")
    /\ get_max_tries("WRITE_ONLY") /\ Caller
CreateByQuery ==
    /\ At("create_by_query")
    /\ \E rc \in Statuses : create_by_query(96, "V21", rc) /\ Caller
CreateByVcpVersion ==
    /\ At("create_by_vcp_version")
    /\ \E rc \in Statuses : create_by_vcp_version(96, "V21", rc) /\ Caller

Next ==
    \/ CreateByDispno
    \/ DidFree
    \/ DidRepr
    \/ CreateFromDid
    \/ DrefFree
    \/ DrefRepr
    \/ Open
    \/ Close
    \/ DhRepr
    \/ GetCapabilitiesString
    \/ GetMccsVersionId
    \/ GetMccsVersion
    \/ GetFormattedVcpValue
    \/ GetVcpValue
    \/ SetNcVcpValue
    \/ SetSimpleNcVcpValue
    \/ SetContinuousVcpValue
    \/ CreateFromString
    \/ ParsedFree
    \/ ParsedReport
    \/ SetMaxTries
    \/ GetMaxTries
    \/ CreateByQuery
    \/ CreateByVcpVersion

Spec == Init /\ [][Next]_vars

\* ------------------------------------------------ specification of tables
\* Entries a native feature-value table may hold before its end.
TableEntries == [value_code : 0..MaxCode, value_name : {NULL, <<"a">>, <<"b">>}]
\* Native feature-value tables: up to MaxEntries entries, then the sentinel.
NativeTables ==
    {body \o <<Sentinel>> :
        body \in UNION {[1..n -> TableEntries] : n \in 0..MaxEntries}}

\* Feature_Value_Table.lookup is declared "def lookup(value_code)", without
\* self: called on a table with one argument it is handed two and raises
\* TypeError before its body runs.
Feature_Value_Table_lookup(table, value_code) == Raises("TypeError")

InitTable ==
    /\ sysver \in {2, 3}
    /\ InitPyenvIdle
    /\ InitHandles
    /\ last = Loaded
    /\ pc = "-" /\ vcpval = NoRet /\ original = NoRet
    /\ c_table \in NativeTables /\ fvt = NoRet /\ finfo = NoRet
    /\ dilist = NoDisplays /\ result = <<>> /\ listed = <<>>

\* t = Feature_Value_Table.create_from_c_table(c_table); kept in fvt when it
\* returns.
CreateFromCTable ==
    /\ LET t == create_from_c_table(c_table) IN
       /\ fvt' = IF t.kind = "raise" THEN fvt ELSE t
       /\ last' = Outcome("create_from_c_table", None, <<>>, <<>>, NoRet, 0, 0, 0,
                          ExcOf(t), t)
    /\ UNCHANGED <<sysver, pyenvVars, handleVars, scriptVars, c_table, finfo, listVars>>

\* fvt.lookup(value_code)
Lookup ==
    \E value_code \in 0..MaxCode :
        /\ fvt.kind = "Feature_Value_Table"
        /\ LET r == Feature_Value_Table_lookup(fvt, value_code) IN
           last' = Outcome("lookup", None, <<value_code>>, <<>>, NoRet, 0, 0, 0,
                           ExcOf(r), r)
        /\ UNCHANGED <<sysver, pyenvVars, handleVars, scriptVars, tableVars, listVars>>

NextTable ==
    \/ CreateFromCTable
    \/ Lookup

SpecTable == InitTable /\ [][NextTable]_vars

\* ------------------------------------------------------ feature information
\* A feature code is passed to the native library as one byte: the call
\* converts the Python integer and raises OverflowError when it does not fit.
as_uint8(code) ==
    IF code \in 0..255
    THEN [kind |-> "int", val |-> code]
    ELSE Raises("OverflowError")

\* lib.ddca_get_feature_name: the native library's name for a feature code.
ddca_get_feature_name(feature_code) == <<"feature", feature_code>>

\* get_feature_name forwarding the code's low byte.
get_feature_name_truncating(feature_code) ==
    LET r == from_cdata_string(ddca_get_feature_name(feature_code % 256)) IN
    /\ last' = Outcome("get_feature_name", None, <<feature_code>>,
                       <<feature_code % 256>>, NoRet, 0, 0, 1, ExcOf(r), r)
    /\ UNCHANGED handleVars

\* get_feature_name: ffi.string(lib.ddca_get_feature_name(feature_code)),
\* decoded under Python 3.
get_feature_name(feature_code) ==
    LET arg == as_uint8(feature_code)
        r == IF arg.kind = "raise"
             THEN arg
             ELSE from_cdata_string(ddca_get_feature_name(arg.val))
    IN
    /\ last' = Outcome("get_feature_name", None, <<feature_code>>,
                       IF arg.kind = "raise" THEN <<>> ELSE <<arg.val>>, NoRet,
                       0, 0, IF arg.kind = "raise" THEN 0 ELSE 1, ExcOf(r), r)
    /\ UNCHANGED handleVars

\* C strings the native library may hand over: null, empty, non-empty.
CStrings == {NULL, <<"">>, <<"a">>}

\* The records lib.ddca_get_feature_info_by_vcp_version may return.
FeatureInfos ==
    [feature_code : {96}, feature_name : {NULL, <<"a">>}, desc : {NULL, <<"b">>},
     sl_values : {NULL, <<Sentinel>>, NativeSlTable}]

\* Feature_Info.feature_name
Feature_Info_feature_name(c_feature_info) ==
    from_cdata_string(c_feature_info.feature_name)
\* Feature_Info.desc
Feature_Info_desc(c_feature_info) == from_cdata_string(c_feature_info.desc)
\* Feature_Info.sl_values
Feature_Info_sl_values(c_feature_info) ==
    LET c_fvt == c_feature_info.sl_values IN
    IF c_fvt = NULL THEN NoRet ELSE create_from_c_table(c_fvt)

InitFeature ==
    /\ sysver \in {2, 3}
    /\ InitPyenvIdle
    /\ InitHandles
    /\ last = Loaded
    /\ pc = "-" /\ vcpval = NoRet /\ original = NoRet
    /\ c_table = <<>> /\ fvt = NoRet /\ finfo \in FeatureInfos
    /\ dilist = NoDisplays /\ result = <<>> /\ listed = <<>>

\* A call that changes nothing but last.
Called(op, args, out, r) ==
    /\ last' = Outcome(op, None, args, <<>>, out, 0, 0, 0, ExcOf(r), r)
    /\ UNCHANGED <<sysver, pyenvVars, handleVars, scriptVars, tableVars, listVars>>

FromCdataString ==
    \E cs \in CStrings :
        Called("from_cdata_string", <<cs>>, NoRet, from_cdata_string(cs))
GetFeatureName ==
    /\ At("get_feature_name")
    /\ \E feature_code \in Arg(0..MaxFeatureCode) :
           get_feature_name(feature_code) /\ Caller
\* finfo.name, for a property built on a pointer of the native record.
FeatureInfoRead ==
    \E name \in {"feature_name", "desc", "sl_values"} :
        Called("Feature_Info." \o name, <<>>, finfo,
               CASE name = "feature_name" -> Feature_Info_feature_name(finfo)
                 [] name = "desc" -> Feature_Info_desc(finfo)
                 [] name = "sl_values" -> Feature_Info_sl_values(finfo))

NextFeature ==
    \/ FromCdataString
    \/ GetFeatureName
    \/ FeatureInfoRead

SpecFeature == InitFeature /\ [][NextFeature]_vars

\* -------------------------------------------------------------- bit fields
\* bits_to_frozenset trying 15 bits.
bits_to_frozenset_15(bits) ==
    [kind |-> "frozenset",
     val |-> {v \in {2^i : i \in 0..14} : BitAnd(bits, v) # 0}]

\* bits_to_frozenset: for i in range(16), v = 1 << i is added when bits & v.
bits_to_frozenset(bits) ==
    [kind |-> "frozenset",
     val |-> {v \in {2^i : i \in 0..15} : BitAnd(bits, v) # 0}]

\* The bit fields lib.ddca_build_options() and a native feature record hold.
NativeBits == {a * 2^sh : a \in 0..MaxBitPattern, sh \in 0..MaxShift}

\* build_options_as_set()
BuildOptionsAsSet ==
    \E bits \in NativeBits :
        Called("build_options_as_set", <<>>, bits, bits_to_frozenset(bits))

\* Feature_Info.feature_flags_as_set, for a Feature_Info on a native record
\* with these feature_flags.
FeatureFlagsAsSet ==
    \E feature_flags \in NativeBits :
        Called("Feature_Info.feature_flags_as_set", <<>>, feature_flags,
               bits_to_frozenset(feature_flags))

NextBits ==
    \/ BuildOptionsAsSet
    \/ FeatureFlagsAsSet

SpecBits == Init /\ [][NextBits]_vars

\* ----------------------------------------------- a Non_Table_Vcp_Value
\* vcpval is a Non_Table_Vcp_Value as get_vcp_value builds it.
InitValue ==
    /\ sysver \in {2, 3}
    /\ InitPyenvIdle
    /\ InitHandles
    /\ last = Loaded
    /\ pc = "-" /\ original = NoRet
    /\ vcpval \in {Non_Table_Vcp_Value(FeatureX10, 0, 100, sh, 50) : sh \in {0, 1}}
    /\ c_table = <<>> /\ fvt = NoRet /\ finfo = NoRet
    /\ dilist = NoDisplays /\ result = <<>> /\ listed = <<>>

\* vcpval.item = newval
SetAttr ==
    \E item \in {"sh", "sl", "mh", "ml", "curval", "maxval", "cur_val", "max_val"} :
    \E newval \in {1, 300} :
        /\ vcpval' = Non_Table_Vcp_Value_setattr(vcpval, item, newval)
        /\ last' = Outcome("Non_Table_Vcp_Value.__setattr__", None,
                           <<item, newval>>, <<>>, NoRet, 0, 0, 0, NoExc, NoRet)
        /\ UNCHANGED <<sysver, pyenvVars, handleVars, pc, original, tableVars, listVars>>

\* vcpval.item
GetAttr ==
    \E item \in {"cur_val", "max_val", "curval"} :
        /\ LET r == Non_Table_Vcp_Value_getattr(vcpval, item) IN
           last' = Outcome("Non_Table_Vcp_Value.read", None, <<item>>, <<>>,
                           NoRet, 0, 0, 0, ExcOf(r), r)
        /\ UNCHANGED <<sysver, pyenvVars, handleVars, scriptVars, tableVars, listVars>>

NextValue ==
    \/ SetAttr
    \/ GetAttr

SpecValue == InitValue /\ [][NextValue]_vars

\* ----------------------------------------------------------- display list
\* The bytes of an EDID, generated from a seed.
Edid(seed) == [i \in 1..EdidSize |-> (seed + i) % 256]

\* The native records of the displays: the I/O path is a tagged union whose
\* members (i2c_busno, adlno, hiddev_devno) share the two words w0, w1.
DisplayRecord(dispno, mfg, io_mode) ==
    [dispno |-> dispno, mfg_id |-> mfg, model_name |-> <<"model", dispno>>,
     sn |-> <<"sn", dispno>>, edid_bytes |-> Edid(dispno),
     path |-> [io_mode |-> io_mode, w0 |-> 4 + dispno, w1 |-> 7],
     dref |-> <<"dref", dispno>>, usb_bus |-> 1, usb_device |-> dispno]

\* The display lists the native library may return: ct records, in order.
NativeLists ==
    UNION {{[ct |-> n,
             info |-> [i \in 1..n |-> DisplayRecord(i, mfg[i], mode[i])]] :
               mfg \in [1..n -> {<<"ACI">>, <<"DEL">>}], mode \in [1..n -> 0..MaxIoMode]} :
           n \in 0..MaxDisplays}

\* DEVI2C_IO_Path.__init__
DEVI2C_IO_Path(i2c_busno) ==
    [kind |-> "DEVI2C_IO_Path", io_mode |-> IO_DEVI2C, busno |-> i2c_busno]

\* IO_Path.create_from_cdata: the ADL branch names DEVADL_IO_PATH and the
\* else branch DEVUSB_IO_PATH, neither of which the module defines.
create_from_cdata(cdata) ==
    IF cdata.io_mode = IO_DEVI2C
    THEN DEVI2C_IO_Path(cdata.w0)
    ELSE IF cdata.io_mode = IO_ADL
    THEN Raises("NameError")
    ELSE Raises("NameError")

\* Display_Info.__init__: keeps the native record itself (here its index in
\* the native array), not a copy.
Display_Info(ndx) == [kind |-> "Display_Info", c_dinfo |-> ndx]

\* The accessors of Display_Info; c_dinfo is the native record self._c_dinfo
\* as it is in native memory when the accessor runs.
\* Display_Info.dispno
Display_Info_dispno(c_dinfo) == [kind |-> "int", val |-> c_dinfo.dispno]
\* Display_Info.mfg_id: ffi.string, decoded under Python 3.
Display_Info_mfg_id(c_dinfo) == from_cdata_string(c_dinfo.mfg_id)
\* Display_Info.model_name
Display_Info_model_name(c_dinfo) == from_cdata_string(c_dinfo.model_name)
\* Display_Info.sn: the decorator above "def sn" is "@model_name.setter" (its
\* own function is commented out) over "@property", so the class attribute
\* sn is a copy of the model_name property, whose getter is model_name's.
Display_Info_sn(c_dinfo) == Display_Info_model_name(c_dinfo)
\* Display_Info.edid_bytes: bytes(ffi.buffer(self._c_dinfo.edid_bytes, 128))
Display_Info_edid_bytes(c_dinfo) ==
    [kind |-> "bytes", val |-> SubSeq(c_dinfo.edid_bytes, 1, EdidSize)]
\* Display_Info.path
Display_Info_path(c_dinfo) == create_from_cdata(c_dinfo.path)

\* get_display_info_list prepending each Display_Info instead of appending it.
get_display_info_list_prepending(lst) ==
    [kind |-> "list",
     items |-> [ndx \in 1..lst.ct |-> Display_Info(lst.ct + 1 - ndx)]]

\* get_display_info_list treating an empty list as an error.
get_display_info_list_empty_is_error(lst) ==
    IF lst.ct = 0
    THEN Raises("Exception")
    ELSE [kind |-> "list", items |-> [ndx \in 1..lst.ct |-> Display_Info(ndx)]]

\* get_display_info_list: one Display_Info per index of range(dilist.ct),
\* appended in order.
get_display_info_list(lst) ==
    [kind |-> "list", items |-> [ndx \in 1..lst.ct |-> Display_Info(ndx)]]

InitList ==
    /\ sysver \in {2, 3}
    /\ InitPyenvIdle
    /\ InitHandles
    /\ last = Loaded
    /\ pc = "-" /\ vcpval = NoRet /\ original = NoRet
    /\ c_table = <<>> /\ fvt = NoRet /\ finfo = NoRet
    /\ dilist \in NativeLists /\ result = <<>> /\ listed = <<>>

\* result = get_display_info_list()
GetDisplayInfoList ==
    /\ LET r == get_display_info_list(dilist) IN
       /\ result' = IF r.kind = "list" THEN r.items ELSE result
       /\ listed' = dilist.info
       /\ last' = Outcome("get_display_info_list", None, <<>>, <<>>, dilist, 0, 0, 1,
                          ExcOf(r), r)
    /\ UNCHANGED <<sysver, pyenvVars, handleVars, scriptVars, tableVars, dilist>>

\* The properties of Display_Info, by name.
Display_Info_get(c_dinfo, name) ==
    CASE name = "dispno" -> Display_Info_dispno(c_dinfo)
      [] name = "mfg_id" -> Display_Info_mfg_id(c_dinfo)
      [] name = "model_name" -> Display_Info_model_name(c_dinfo)
      [] name = "sn" -> Display_Info_sn(c_dinfo)
      [] name = "edid_bytes" -> Display_Info_edid_bytes(c_dinfo)
      [] name = "path" -> Display_Info_path(c_dinfo)

\* result[i].name, for a Display_Info of the returned list: what the property
\* read from native memory and what it returned.
DisplayInfoRead ==
    \E i \in 1..Len(result) :
    \E name \in {"dispno", "mfg_id", "model_name", "sn", "edid_bytes", "path"} :
        /\ LET c_dinfo == dilist.info[result[i].c_dinfo]
               r == Display_Info_get(c_dinfo, name)
           IN  last' = Outcome("Display_Info." \o name, None, <<i>>, <<>>,
                               c_dinfo, 0, 0, 0, ExcOf(r), r)
        /\ UNCHANGED <<sysver, pyenvVars, handleVars, scriptVars, tableVars, listVars>>

NextList ==
    \/ GetDisplayInfoList
    \/ DisplayInfoRead

SpecList == InitList /\ [][NextList]_vars

\* The native library owns the array behind the list and may write a later
\* detection's record into it (or free it, after which its memory holds
\* whatever is written there next): here it rewrites one record of the array
\* once the list has been handed out; the number of records and their
\* addresses stay.
NativeReuse ==
    /\ listed = dilist.info
    /\ \E lst \in NativeLists :
           /\ lst.ct = dilist.ct
           /\ Cardinality({i \in 1..lst.ct : lst.info[i] # dilist.info[i]}) = 1
           /\ dilist' = lst
    /\ UNCHANGED <<sysver, pyenvVars, handleVars, last, scriptVars, tableVars, result, listed>>

NextListReuse ==
    \/ NextList
    \/ NativeReuse

SpecListReuse == InitList /\ [][NextListReuse]_vars

\* Display_Info.__setattr__: "_c_dinfo" is refused; any other name goes to
\* object.__setattr__, which calls the setter of a property of the class
\* (none of the properties has one, and the setter of sn is the property
\* object of line 469, which is not callable), replaces the instance's
\* dictionary for "__dict__" when given a dictionary, and stores any other
\* name in the instance's dictionary.  self is the instance's dictionary
\* (c_dinfo is its entry _c_dinfo); the result is the instance after the
\* assignment and the exception raised.
Display_Info_setattr(self, name, value) ==
    IF name = "_c_dinfo"
    THEN [self |-> self, excp |-> PyExc("AttributeError")]
    ELSE IF name \in {"dispno", "mfg_id", "model_name", "edid_bytes", "path",
                      "dref", "usb_bus", "usb_device"}
    THEN [self |-> self, excp |-> PyExc("AttributeError")]
    ELSE IF name = "sn"
    THEN [self |-> self, excp |-> PyExc("TypeError")]
    ELSE IF name = "__dict__"
    THEN IF value.kind = "dict"
         THEN [self |-> [kind |-> self.kind, c_dinfo |-> value.c_dinfo],
               excp |-> NoExc]
         ELSE [self |-> self, excp |-> PyExc("TypeError")]
    ELSE [self |-> [a \in (DOMAIN self) \cup {name} |->
                       IF a = name THEN value ELSE self[a]],
          excp |-> NoExc]

\* result[i].name = value, for a Display_Info of the returned list: the
\* guarded name, a property without setter, sn, a name the class does not
\* define, and __dict__; value is an integer or, for __dict__, also a
\* dictionary holding a record of the native list under _c_dinfo.  out is the
\* instance before the assignment.
DisplayInfoSetAttr ==
    \E i \in 1..Len(result) :
    \E name \in {"_c_dinfo", "dispno", "sn", "note", "__dict__"} :
    \E value \in {[kind |-> "int", val |-> 7]}
                 \cup (IF name = "__dict__"
                       THEN {[kind |-> "dict", c_dinfo |-> j] : j \in 1..dilist.ct}
                       ELSE {}) :
        /\ LET r == Display_Info_setattr(result[i], name, value) IN
           /\ result' = [result EXCEPT ![i] = r.self]
           /\ last' = Outcome("Display_Info.__setattr__", None, <<i, name, value>>,
                              <<>>, result[i], 0, 0, 0, r.excp, NoRet)
        /\ UNCHANGED <<sysver, pyenvVars, handleVars, scriptVars, tableVars, dilist, listed>>

NextListAssign ==
    \/ GetDisplayInfoList
    \/ DisplayInfoSetAttr

SpecListAssign == InitList /\ [][NextListAssign]_vars

\* ------------------------------------------------- the end-to-end scenario
\* The values feature 0x10 may have when a program starts.
ScenarioInitial == {0, 25, 50, 75, 100}

\* A caller about to run ScenarioProgram.
InitScenario ==
    /\ sysver \in {2, 3}
    /\ InitPyenvIdle
    /\ did = None /\ dref = None /\ dh = None /\ parsed = None
    /\ native \in [tok : {[t \in Tok |-> "unused"]}, mh : {0}, ml : {100},
                   sh : {0}, sl : ScenarioInitial]
    /\ tries = 1
    /\ last = Loaded
    /\ pc = "create" /\ vcpval = NoRet /\ original = NoRet
    /\ c_table = <<>> /\ fvt = NoRet /\ finfo = NoRet
    /\ dilist = NoDisplays /\ result = <<>> /\ listed = <<>>

NextScenario ==
    \/ CreateByDispno
    \/ CreateFromDid
    \/ Open
    \/ GetVcpValue
    \/ SetContinuousVcpValue
    \/ Close
    \/ DrefFree
    \/ DidFree

SpecScenario == InitScenario /\ [][NextScenario]_vars

\* ---------------------------------------------------- the cffi test script
\* A caller about to run ScriptProgram.
InitScript ==
    /\ sysver \in {2, 3}
    /\ InitPyenvIdle
    /\ did = None /\ dref = None /\ dh = None /\ parsed = None
    /\ native \in [tok : {[t \in Tok |-> "unused"]}, mh : {0}, ml : {100},
                   sh : {0}, sl : ScenarioInitial]
    /\ tries = 1
    /\ last = Loaded
    /\ pc = "110" /\ vcpval = NoRet
    /\ original = [sh |-> native.sh, sl |-> native.sl]
    /\ c_table = <<>> /\ fvt = NoRet /\ finfo = NoRet
    /\ dilist = NoDisplays /\ result = <<>> /\ listed = <<>>

NextScript ==
    \/ CreateByDispno
    \/ DidRepr
    \/ DidFree
    \/ CreateFromDid
    \/ DrefRepr
    \/ Open
    \/ DhRepr
    \/ GetCapabilitiesString
    \/ CreateFromString
    \/ ParsedReport
    \/ ParsedFree
    \/ GetFeatureName
    \/ GetMccsVersionId
    \/ GetMccsVersion
    \/ GetFormattedVcpValue
    \/ GetVcpValue
    \/ SetContinuousVcpValue
    \/ SetSimpleNcVcpValue

SpecScript == InitScript /\ [][NextScript]_vars

\* ------------------------------------------------------------- pyenv.py
\* The installations: for a library, which of the n scheme names lead to the
\* same paths (names with the same number do; a number first appears after
\* every smaller one).
Installations(n) ==
    {paths \in [1..n -> 1..n] :
        \A k \in 1..n : \A v \in 1..(paths[k] - 1) :
            \E j \in 1..(k - 1) : paths[j] = v}

\* compare_schemes: True when sysconfig.get_path gives the same path for the
\* two schemes, unexpanded and for each prefix.
compare_schemes(library_id, scheme1, scheme2) ==
    sysconfig[library_id][scheme1] = sysconfig[library_id][scheme2]

\* pyenv.py at line 238 with its list of distinct scheme names (lines 86-89
\* give two or three), on any installation.
InitPyenv ==
    /\ sysver \in {2, 3}
    /\ InitHandles
    /\ last = Loaded
    /\ pc = "-" /\ vcpval = NoRet /\ original = NoRet
    /\ c_table = <<>> /\ fvt = NoRet /\ finfo = NoRet
    /\ dilist = NoDisplays /\ result = <<>> /\ listed = <<>>
    /\ \E n \in 0..MaxSchemes :
           /\ schemes = [i \in 1..n |-> i]
           /\ sysconfig \in [{"purelib", "platlib"} -> Installations(n)]
    /\ libid = "" /\ pyenv_pc = "238"
    /\ scheme_ndx1 = 0 /\ scheme_ndx2 = 0 /\ examined = <<>>

\* for libid in ['purelib', 'platlib']: filter_identical_schemes(libid,
\* schemes) is entered, filtered_schemes = schemes naming the caller's list;
\* after the loop the script goes on to line 297, which iterates schemes.
ForLibid ==
    /\ pyenv_pc = "238"
    /\ IF libid # "platlib"
       THEN /\ libid' = IF libid = "" THEN "purelib" ELSE "platlib"
            /\ examined' = Append(examined, schemes)
            /\ scheme_ndx1' = 0
            /\ pyenv_pc' = "208"
       ELSE /\ pyenv_pc' = "297"
            /\ UNCHANGED <<libid, examined, scheme_ndx1>>
    /\ UNCHANGED <<sysconfig, schemes, scheme_ndx2>>
    /\ UNCHANGED <<sysver, handleVars, last, scriptVars, tableVars, listVars>>

\* while scheme_ndx1 < len(filtered_schemes)-1: scheme_ndx2 = scheme_ndx1 + 1
OuterWhile ==
    /\ pyenv_pc = "208"
    /\ IF scheme_ndx1 < Len(schemes) - 1
       THEN scheme_ndx2' = scheme_ndx1 + 1 /\ pyenv_pc' = "210"
       ELSE pyenv_pc' = "219" /\ UNCHANGED scheme_ndx2
    /\ UNCHANGED <<sysconfig, schemes, libid, scheme_ndx1, examined>>
    /\ UNCHANGED <<sysver, handleVars, last, scriptVars, tableVars, listVars>>

\* The inner loop going on to the next index after a deletion as well.
InnerWhile_advancing_after_delete ==
    /\ pyenv_pc = "210"
    /\ IF scheme_ndx2 < Len(schemes)
       THEN /\ schemes' =
                  IF compare_schemes(libid, schemes[scheme_ndx1 + 1],
                                     schemes[scheme_ndx2 + 1])
                  THEN SubSeq(schemes, 1, scheme_ndx2)
                       \o SubSeq(schemes, scheme_ndx2 + 2, Len(schemes))
                  ELSE schemes
            /\ scheme_ndx2' = scheme_ndx2 + 1
            /\ UNCHANGED <<scheme_ndx1, pyenv_pc>>
       ELSE /\ scheme_ndx1' = scheme_ndx1 + 1
            /\ pyenv_pc' = "208"
            /\ UNCHANGED <<schemes, scheme_ndx2>>
    /\ UNCHANGED <<sysconfig, libid, examined>>
    /\ UNCHANGED <<sysver, handleVars, last, scriptVars, tableVars, listVars>>

\* The inner loop leaving scheme_ndx2 as it is when the two schemes differ.
InnerWhile_without_advance ==
    /\ pyenv_pc = "210"
    /\ IF scheme_ndx2 < Len(schemes)
       THEN IF compare_schemes(libid, schemes[scheme_ndx1 + 1],
                               schemes[scheme_ndx2 + 1])
            THEN /\ schemes' = SubSeq(schemes, 1, scheme_ndx2)
                               \o SubSeq(schemes, scheme_ndx2 + 2, Len(schemes))
                 /\ UNCHANGED <<scheme_ndx1, scheme_ndx2, pyenv_pc>>
            ELSE UNCHANGED <<schemes, scheme_ndx1, scheme_ndx2, pyenv_pc>>
       ELSE /\ scheme_ndx1' = scheme_ndx1 + 1
            /\ pyenv_pc' = "208"
            /\ UNCHANGED <<schemes, scheme_ndx2>>
    /\ UNCHANGED <<sysconfig, libid, examined>>
    /\ UNCHANGED <<sysver, handleVars, last, scriptVars, tableVars, listVars>>

\* One pass of while scheme_ndx2 < len(filtered_schemes): the two schemes are
\* read (an index outside the list raises IndexError), and the second is
\* deleted from the list when they compare identical, else scheme_ndx2 += 1;
\* when the loop ends, scheme_ndx1 += 1.
InnerWhile ==
    /\ pyenv_pc = "210"
    /\ IF scheme_ndx2 < Len(schemes)
       THEN IF {scheme_ndx1 + 1, scheme_ndx2 + 1} \subseteq DOMAIN schemes
            THEN IF compare_schemes(libid, schemes[scheme_ndx1 + 1],
                                    schemes[scheme_ndx2 + 1])
                 THEN /\ schemes' = SubSeq(schemes, 1, scheme_ndx2)
                                    \o SubSeq(schemes, scheme_ndx2 + 2, Len(schemes))
                      /\ UNCHANGED <<scheme_ndx1, scheme_ndx2, pyenv_pc>>
                 ELSE /\ scheme_ndx2' = scheme_ndx2 + 1
                      /\ UNCHANGED <<schemes, scheme_ndx1, pyenv_pc>>
            ELSE /\ pyenv_pc' = "IndexError"
                 /\ UNCHANGED <<schemes, scheme_ndx1, scheme_ndx2>>
       ELSE /\ scheme_ndx1' = scheme_ndx1 + 1
            /\ pyenv_pc' = "208"
            /\ UNCHANGED <<schemes, scheme_ndx2>>
    /\ UNCHANGED <<sysconfig, libid, examined>>
    /\ UNCHANGED <<sysver, handleVars, last, scriptVars, tableVars, listVars>>

\* return filtered_schemes, and the rest of the loop body (lines 242-265),
\* which reads the list and filters a new list of prefixes for each scheme.
ReturnFiltered ==
    /\ pyenv_pc = "219"
    /\ pyenv_pc' = "238"
    /\ UNCHANGED <<sysconfig, schemes, libid, scheme_ndx1, scheme_ndx2, examined>>
    /\ UNCHANGED <<sysver, handleVars, last, scriptVars, tableVars, listVars>>

NextPyenv ==
    \/ ForLibid
    \/ OuterWhile
    \/ InnerWhile
    \/ ReturnFiltered

SpecPyenv == InitPyenv /\ [][NextPyenv]_vars

\* The interpreter runs the script on: a step that can be taken is taken.
FairSpecPyenv == SpecPyenv /\ WF_vars(NextPyenv)

\* --------------------------------------------------------------- util.py
\* A string is the sequence of its characters' code points, a byte sequence
\* the sequence of its bytes.
\* hexString: '%02x' of each byte, joined; for an argument that is no
\* bytearray each element goes through ord first, which under Python 3, where
\* the elements of a bytes object are integers, raises TypeError.
hexString(byteseq) ==
    IF byteseq.type # "bytearray" /\ sysver = 3 /\ byteseq.val # <<>>
    THEN Raises("TypeError")
    ELSE LET x(d) == IF d < 10 THEN 48 + d ELSE 87 + d IN
         [kind |-> "string",
          chars |-> [i \in 1..(2 * Len(byteseq.val)) |->
                        IF i % 2 = 1
                        THEN x(byteseq.val[(i + 1) \div 2] \div 16)
                        ELSE x(byteseq.val[i \div 2] % 16)]]

\* int(s, 16) for a string s of two characters: surrounding white space and
\* a sign are accepted; anything else than hexadecimal digits besides raises
\* ValueError.
int_base16(s) ==
    LET v(c) == IF c \in 48..57 THEN c - 48
                ELSE IF c \in 97..102 THEN c - 87
                ELSE IF c \in 65..70 THEN c - 55
                ELSE 0 - 1
        space(c) == c \in (9..13) \cup {32}
    IN  IF v(s[1]) >= 0 /\ v(s[2]) >= 0
        THEN [kind |-> "int", val |-> 16 * v(s[1]) + v(s[2])]
        ELSE IF space(s[1]) /\ v(s[2]) >= 0 THEN [kind |-> "int", val |-> v(s[2])]
        ELSE IF v(s[1]) >= 0 /\ space(s[2]) THEN [kind |-> "int", val |-> v(s[1])]
        ELSE IF s[1] = 43 /\ v(s[2]) >= 0 THEN [kind |-> "int", val |-> v(s[2])]
        ELSE IF s[1] = 45 /\ v(s[2]) >= 0 THEN [kind |-> "int", val |-> 0 - v(s[2])]
        ELSE Raises("ValueError")

\* hexStringToByteArray: ValueError for an odd length; else chr(int(pair, 16))
\* for each pair of characters, chr raising ValueError for a negative number.
\* The result is the list of the characters, each given by its code point.
hexStringToByteArray(hexstring) ==
    IF Len(hexstring) % 2 # 0
    THEN Raises("ValueError")
    ELSE LET n(i) == int_base16(SubSeq(hexstring, 2 * i - 1, 2 * i))
             pairs == 1..(Len(hexstring) \div 2)
         IN  IF \E i \in pairs : n(i).kind = "raise" \/ n(i).val < 0
             THEN Raises("ValueError")
             ELSE [kind |-> "list", val |-> [i \in pairs |-> n(i).val]]

\* isPrintableChar
isPrintableChar(ch) == ch >= 32 /\ ch < 127

\* asAsciiString, for a string argument (which asByteString returns as it
\* is): None for the empty string and for a string with a character that is
\* not printable, else the string.
asAsciiString(string_or_bytelist) ==
    IF Len(string_or_bytelist) = 0
    THEN NoRet
    ELSE IF \E i \in 1..Len(string_or_bytelist) :
                ~isPrintableChar(string_or_bytelist[i])
    THEN NoRet
    ELSE [kind |-> "string", chars |-> string_or_bytelist]

\* hexString(b) for a bytes object or a bytearray of up to MaxLen bytes.
HexString ==
    \E type \in {"bytes", "bytearray"} : \E n \in 0..MaxLen :
    \E val \in [1..n -> {0, 1, 10, 254, 255}] :
        Called("hexString", <<[type |-> type, val |-> val]>>, NoRet,
               hexString([type |-> type, val |-> val]))

\* hexStringToByteArray(s) for a string of up to MaxLen characters out of
\* 0 a F g, space and -.
HexStringToByteArray ==
    \E n \in 0..MaxLen : \E hexstring \in [1..n -> {48, 97, 70, 103, 32, 45}] :
        Called("hexStringToByteArray", <<hexstring>>, NoRet,
               hexStringToByteArray(hexstring))

\* asAsciiString(s) for a string of up to MaxLen characters out of NUL, A
\* and DEL.
AsAsciiString ==
    \E n \in 0..MaxLen : \E s0 \in [1..n -> {0, 65, 127}] :
        Called("asAsciiString", <<s0>>, NoRet, asAsciiString(s0))

NextUtil ==
    \/ HexString
    \/ HexStringToByteArray
    \/ AsAsciiString

SpecUtil == Init /\ [][NextUtil]_vars

\* ===================================================================== claims
ReleaseOps == {"Display_Identifier.free", "Display_Ref.free", "close",
               "Parsed_Capabilities.free"}

\* C1: the native free/close function is never called a second time on a
\* native handle: no free() or close() hands the native library a token that
\* an earlier free() or close() has already released.
C1_NoSecondNativeFree == ~(last.op \in ReleaseOps /\ last.stale)

\* C2: once a wrapper has been released, no later operation on it (other than
\* a release, which C1 covers) passes the released token to the native
\* library.
C2_NoUseAfterRelease == ~(last.op \notin ReleaseOps /\ last.stale)

\* C3: set_continuous_vcp_value(code, v) passes to the native write the pair
\* (sh, sl) with sh = v >> 8 and sl = v & 0xff, so that sh << 8 | sl is v
\* again.
C3_ContinuousSplitRoundTrips ==
    last.op = "set_continuous_vcp_value" =>
        LET v == last.args[2]
            sh == last.sent[2]
            sl == last.sent[3]
        IN  /\ sh = Shr8(v)
            /\ sl = BitAnd(v, 255)
            /\ cur_val([sh |-> sh, sl |-> sl]) = v

\* C4: whenever a wrapped native call reports a status c # 0, the operation
\* raises a DDC_Exception whose status is c and whose message carries the
\* native library's own rc_name(c) and rc_desc(c).
C4_ErrorCarriesNativeNameAndDesc ==
    (last.calls = 1 /\ last.rc # 0) =>
        /\ last.excp.type = "DDC_Exception"
        /\ last.excp.status = last.rc
        /\ Len(last.excp.text) >= 4
        /\ last.excp.text[2] = ddca_rc_name(last.rc)
        /\ last.excp.text[4] = ddca_rc_desc(last.rc)

\* C4's case: a wrapped call has reported a non-zero status and the operation
\* has raised.
C4_Witness ==
    /\ last.op = "get_vcp_value" /\ last.rc # 0
    /\ last.excp.type = "DDC_Exception"

StatusOps == {"create_by_dispno", "create_from_did", "open", "close",
              "Display_Identifier.free", "Display_Ref.free",
              "get_capabilities_string", "get_mccs_version_id",
              "get_mccs_version", "get_vcp_value", "get_formatted_vcp_value",
              "set_nc_vcp_value", "set_simple_nc_vcp_value",
              "set_continuous_vcp_value", "set_max_tries", "create_by_query",
              "create_by_vcp_version", "create_from_string"}

\* C5: an operation that wraps a status-returning native call makes that call
\* exactly once, returns normally exactly when the status is 0 and raises,
\* with that status, exactly when it is not; the only other native calls it
\* makes are the two lookups (rc_name, rc_desc) of the exception's message.
C5_OneCallRaisesIffNonZero ==
    last.op \in StatusOps =>
        /\ last.calls = 1
        /\ (last.rc = 0) <=> (last.excp = NoExc)
        /\ last.rc # 0 => last.excp.status = last.rc
        /\ last.others = IF last.rc = 0 THEN 0 ELSE 2

\* C5's case: close() on a handle, the native close reporting an error.
C5_Witness == last.op = "close" /\ last.rc # 0 /\ last.excp # NoExc

FirstSentinel(tbl) ==
    CHOOSE i \in 1..Len(tbl) :
        tbl[i] = Sentinel /\ \A j \in 1..(i - 1) : tbl[j] # Sentinel
Before(tbl) == 1..(FirstSentinel(tbl) - 1)
\* The entries before the sentinel have names and pairwise different codes.
WellFormed(tbl) ==
    /\ \A i \in Before(tbl) : tbl[i].value_name # NULL
    /\ \A i, j \in Before(tbl) :
           tbl[i].value_code = tbl[j].value_code => i = j

\* C7: a feature-value table decodes to the mapping of exactly the
\* (code, name) pairs of the entries before the first (0, NULL) entry; that
\* entry is not part of the mapping, and an entry with code 0 and a name is.
C7_TableDecodesUpToSentinel ==
    /\ (last.op = "create_from_c_table" /\ WellFormed(c_table)) =>
           /\ last.excp = NoExc
           /\ fvt.kind = "Feature_Value_Table"
           /\ {<<c, fvt.entries[c].chars>> : c \in DOMAIN fvt.entries}
                = {<<c_table[i].value_code, c_table[i].value_name>> :
                      i \in Before(c_table)}
    /\ fvt.kind = "Feature_Value_Table" =>
           /\ DOMAIN fvt.entries
                = {c_table[i].value_code : i \in Before(c_table)}
           /\ \A c \in DOMAIN fvt.entries : fvt.entries[c].chars # NULL

\* C7's case: a table with an entry of code 0 and a name, followed by another
\* entry and the sentinel, has been decoded.
C7_Witness ==
    /\ last.op = "create_from_c_table" /\ fvt.kind = "Feature_Value_Table"
    /\ Len(c_table) = 3 /\ WellFormed(c_table)
    /\ c_table[1].value_code = 0 /\ c_table[1].value_name # NULL
    /\ FirstSentinel(c_table) = 3

\* C8: lookup(value_code) on a decoded table returns the code's name when the
\* code is in the mapping and fails with KeyError, and nothing else, when it
\* is not.
C8_LookupReturnsNameOrKeyError ==
    (last.op = "lookup" /\ fvt.kind = "Feature_Value_Table") =>
        LET value_code == last.args[1] IN
        IF value_code \in DOMAIN fvt.entries
        THEN last.excp = NoExc /\ last.ret = fvt.entries[value_code]
        ELSE last.excp.type = "KeyError"

\* C9: when the native list reports no display, get_display_info_list
\* returns the empty list and raises nothing.
C9_NoDisplaysIsEmptyList ==
    (last.op = "get_display_info_list" /\ dilist.ct = 0) =>
        /\ last.excp = NoExc
        /\ last.ret.kind = "list" /\ last.ret.items = <<>>
        /\ result = <<>>

\* C9's case: the list has been asked for with no display attached.
C9_Witness == last.op = "get_display_info_list" /\ dilist.ct = 0

\* C10: a native value record whose tag is neither the non-table nor the
\* table tag is not decoded into a value: get_vcp_value raises.
C10_UnknownTagIsAnError ==
    (/\ last.op = "get_vcp_value" /\ last.rc = 0
     /\ last.out.value_type \notin {NON_TABLE_VCP_VALUE, TABLE_VCP_VALUE})
        => last.excp # NoExc

\* C11: what an accessor of a returned Display_Info yields is the record's
\* value at the time get_display_info_list was called, whatever the native
\* library has written into its array since.
C11_ValuesAreThoseAtTheCall ==
    LET was == listed[result[last.args[1]].c_dinfo] IN
    /\ last.op = "Display_Info.dispno" => last.ret.val = was.dispno
    /\ last.op = "Display_Info.mfg_id" => last.ret.chars = was.mfg_id
    /\ last.op = "Display_Info.model_name" => last.ret.chars = was.model_name
    /\ last.op = "Display_Info.edid_bytes" => last.ret.val = was.edid_bytes

\* The three native I/O modes.
NativeIoModes == {IO_DEVI2C, IO_ADL, IO_USB}

\* C17: for each of the three native I/O modes, Display_Info.path returns
\* without error a path of the record's mode that carries the record's
\* payload: the bus number (I2C), the adapter and display index (ADL), the
\* hiddev device number (USB).
C17_PathDecodingIsTotal ==
    (last.op = "Display_Info.path" /\ last.out.path.io_mode \in NativeIoModes) =>
        LET path == last.out.path IN
        /\ last.excp = NoExc
        /\ last.ret.io_mode = path.io_mode
        /\ path.io_mode = IO_DEVI2C => last.ret.busno = path.w0
        /\ path.io_mode = IO_ADL =>
               /\ last.ret.iAdapterIndex = path.w0
               /\ last.ret.iDisplayIndex = path.w1
        /\ path.io_mode = IO_USB => last.ret.hiddev_devno = path.w0

\* C19: each accessor of a Display_Info returns its own field of the native
\* record: dispno the display number, mfg_id the manufacturer id, model_name
\* the model name, sn the serial number, edid_bytes the 128 EDID bytes.
C19_AccessorsReturnTheirOwnField ==
    /\ last.op = "Display_Info.dispno" => last.ret.val = last.out.dispno
    /\ last.op = "Display_Info.mfg_id" => last.ret.chars = last.out.mfg_id
    /\ last.op = "Display_Info.model_name" =>
           last.ret.chars = last.out.model_name
    /\ last.op = "Display_Info.sn" => last.ret.chars = last.out.sn
    /\ last.op = "Display_Info.edid_bytes" =>
           /\ Len(last.ret.val) = EdidSize
           /\ last.ret.val = last.out.edid_bytes

\* C14: a null C string pointer is converted to None by from_cdata_string and
\* by the accessors built on it, and a null sl_values pointer of a
\* feature-info record makes sl_values None; neither raises.
C14_NullPointerIsNone ==
    /\ (last.op = "from_cdata_string" /\ last.args[1] = NULL) =>
           last.excp = NoExc /\ last.ret = NoRet
    /\ (last.op = "Feature_Info.feature_name" /\ last.out.feature_name = NULL) =>
           last.excp = NoExc /\ last.ret = NoRet
    /\ (last.op = "Feature_Info.desc" /\ last.out.desc = NULL) =>
           last.excp = NoExc /\ last.ret = NoRet
    /\ (last.op = "Feature_Info.sl_values" /\ last.out.sl_values = NULL) =>
           last.excp = NoExc /\ last.ret = NoRet

\* C16: get_feature_name(code) returns the native library's name of the code
\* for every code of 0..255, having passed that code on; for every larger
\* code it raises OverflowError and makes no native call.
C16_FeatureCodeFitsOneByte ==
    last.op = "get_feature_name" =>
        LET code == last.args[1] IN
        IF code \in 0..255
        THEN /\ last.excp = NoExc
             /\ last.sent = <<code>>
             /\ last.ret.chars = ddca_get_feature_name(code)
        ELSE /\ last.excp.type = "OverflowError"
             /\ last.sent = <<>>
             /\ last.others = 0

\* C16's case: the name of feature 0x0101 has been asked for.
C16_Witness ==
    /\ last.op = "get_feature_name" /\ last.args[1] = 257
    /\ last.excp.type = "OverflowError"

\* C13: a native handle that has been released is never live again: no
\* operation of the adapter takes a wrapper from Released back to
\* Open/Resolved.
C13_NoReturnFromReleased ==
    [][\A t \in Tok :
          native.tok[t] = "released" => native'.tok[t] = "released"]_vars

\* C13's case: a factory has succeeded after an earlier wrapper was released.
C13_Witness ==
    /\ last.op = "create_by_dispno" /\ last.rc = 0
    /\ \E t \in Tok : t < did /\ native.tok[t] = "released"

C20_CurValIsShSl ==
    /\ (last.op = "Non_Table_Vcp_Value.read" /\ last.args[1] = "cur_val") =>
           /\ last.excp = NoExc
           /\ last.ret.val = BitOr(Shl8(vcpval.sh), vcpval.sl)
    /\ (last.op = "Non_Table_Vcp_Value.read" /\ last.args[1] = "max_val") =>
           /\ last.excp = NoExc
           /\ last.ret.val = BitOr(Shl8(vcpval.mh), vcpval.ml)

\* C12: a handle acquired through the adapter is released on every exit path
\* of the code that uses it: the Parsed_Capabilities of test_capabilities is
\* live only between its creation and its free, however test_capabilities
\* is left, and when the script has ended, normally or by an exception other
\* than a refused release, no handle it acquired is still live.
C12_ReleasedOnEveryExitPath ==
    /\ pc \notin {"85", "87"} => ~Live(parsed)
    /\ (pc \in {"aborted", "end"} /\ last.op \notin ReleaseOps) =>
           \A t \in Tok : native.tok[t] # "live"

\* C18: when the brightness sequence has run to its end, the monitor's value
\* of feature 0x10 is the value it had before the sequence started.
C18_BrightnessIsRestored ==
    pc = "end" => [sh |-> native.sh, sl |-> native.sl] = original

\* C21: a successful get_vcp_value of a record of table type returns a
\* Table_Vcp_Value carrying the record's opcode and the byte sequence the
\* native library returned; of a record of non-table type, a
\* Non_Table_Vcp_Value carrying the record's mh, ml, sh, sl and opcode.
C21_ValueCarriesTheRecord ==
    (last.op = "get_vcp_value" /\ last.excp = NoExc) =>
        /\ last.out.value_type = TABLE_VCP_VALUE =>
               /\ last.ret.kind = "Table_Vcp_Value"
               /\ last.ret.opcode = last.out.opcode
               /\ last.ret.bytestring # None
               /\ last.ret.bytestring = last.out.bytes
        /\ last.out.value_type = NON_TABLE_VCP_VALUE =>
               last.ret = Non_Table_Vcp_Value(last.out.opcode, last.out.mh,
                              last.out.ml, last.out.sh, last.out.sl)

\* C22: under Python 3 every adapter function that returns a native C string
\* returns decoded text, get_capabilities_string and get_formatted_vcp_value
\* included, never raw bytes.
C22_StringsAreDecodedText ==
    (sysver = 3 /\ last.excp = NoExc /\ last.ret.kind = "string") =>
        last.ret.decoded

\* C23: get_display_info_list returns exactly ct Display_Info objects, ct the
\* count of the native list, the i-th wrapping the i-th native record: none
\* skipped, duplicated or reordered.
C23_ListFollowsTheNativeList ==
    last.op = "get_display_info_list" =>
        /\ last.excp = NoExc
        /\ last.ret.kind = "list"
        /\ Len(last.ret.items) = last.out.ct
        /\ \A i \in 1..last.out.ct :
               /\ last.ret.items[i].kind = "Display_Info"
               /\ last.ret.items[i].c_dinfo = i
        /\ result = last.ret.items
C23_Witness ==
    /\ last.op = "get_display_info_list"
    /\ last.out.ct = MaxDisplays
    /\ last.out.info[1] # last.out.info[2]
    /\ Len(result) = MaxDisplays

\* C24: assigning to _c_dinfo of a Display_Info raises AttributeError, and no
\* attribute assignment on a Display_Info, whether it succeeds or raises,
\* changes the record it wraps and so what its accessors return.
C24_DisplayInfoIsReadOnly ==
    last.op = "Display_Info.__setattr__" =>
        LET before == dilist.info[last.out.c_dinfo]
            after == dilist.info[result[last.args[1]].c_dinfo]
        IN  /\ last.args[2] = "_c_dinfo" => last.excp.type = "AttributeError"
            /\ result[last.args[1]].c_dinfo = last.out.c_dinfo
            /\ \A name \in {"dispno", "mfg_id", "model_name", "sn",
                            "edid_bytes", "path"} :
                   Display_Info_get(after, name) = Display_Info_get(before, name)

\* C25: build_options_as_set and Feature_Info.feature_flags_as_set return, for
\* the native bit field bits, exactly the set of the powers of two 2^i,
\* 0 <= i < 16, whose bit is set in bits; the members add up to the low 16
\* bits of bits.
RECURSIVE SumOf(_)
SumOf(S) == IF S = {} THEN 0 ELSE LET x == CHOOSE x \in S : TRUE IN x + SumOf(S \ {x})
C25_SetOfTheBitsSet ==
    last.op \in {"build_options_as_set", "Feature_Info.feature_flags_as_set"} =>
        /\ last.excp = NoExc
        /\ last.ret.val = {2^i : i \in {i \in 0..15 : (last.out \div 2^i) % 2 = 1}}
        /\ SumOf(last.ret.val) = last.out % 65536
C25_Witness ==
    /\ last.op = "Feature_Info.feature_flags_as_set"
    /\ last.out > 65535
    /\ 32768 \in last.ret.val
    /\ 1024 \notin last.ret.val

\* C26: when filter_identical_schemes returns, the list holds, in their
\* order, exactly the schemes of the list it was given that compare identical
\* to no earlier scheme of that list: no two of the remaining compare
\* identical, and every removed scheme is identical to a remaining one.
C26_FirstOfEachGroupIsKept ==
    pyenv_pc = "219" =>
        LET given == examined[Len(examined)]
            First(sc) == \A j \in 1..Len(given) :
                             given[j] = sc =>
                                 \A k \in 1..(j - 1) :
                                     ~compare_schemes(libid, given[k], sc)
        IN  /\ schemes = SelectSeq(given, First)
            /\ \A i \in 1..Len(schemes) : \A j \in (i + 1)..Len(schemes) :
                   ~compare_schemes(libid, schemes[i], schemes[j])
            /\ \A j \in 1..Len(given) : \E i \in 1..Len(schemes) :
                   compare_schemes(libid, schemes[i], given[j])
C26_Witness ==
    /\ pyenv_pc = "219"
    /\ Len(examined[Len(examined)]) = MaxSchemes
    /\ schemes = <<1, 2>>
    /\ compare_schemes(libid, 2, 3)

\* C27: filter_identical_schemes terminates: no index goes past the end of
\* the list, each pass of the inner loop deletes one element or advances the
\* inner index, and the script reaches the code after the per-library loop.
C27_FilterTerminates ==
    /\ [](/\ pyenv_pc # "IndexError"
          /\ pyenv_pc = "210" => scheme_ndx1 < scheme_ndx2
          /\ pyenv_pc = "210" => scheme_ndx2 <= Len(schemes))
    /\ [][(pyenv_pc = "210" /\ pyenv_pc' = "210") =>
             \/ Len(schemes') = Len(schemes) - 1 /\ scheme_ndx2' = scheme_ndx2
             \/ schemes' = schemes /\ scheme_ndx2' = scheme_ndx2 + 1]_vars
    /\ <>(pyenv_pc = "297")
C27_Witness ==
    /\ pyenv_pc = "297"
    /\ Len(examined[1]) = MaxSchemes
    /\ Len(schemes) = 1

\* C28: filter_identical_schemes leaves the list it is given unchanged: the
\* list examined for platlib is the one examined for purelib, and the loop of
\* line 297 iterates over every scheme the module configured.
C28_CallerListIsUnchanged ==
    /\ pyenv_pc = "219" => schemes = examined[Len(examined)]
    /\ Len(examined) = 2 => examined[2] = examined[1]
    /\ pyenv_pc = "297" => schemes = examined[1]

\* C29: hexString(b) is 2*len(b) lower-case hexadecimal digits, two per byte
\* in order, hexStringToByteArray(hexString(b)) gives back the bytes of b,
\* and hexStringToByteArray raises ValueError for every string of odd length
\* or with a character that is no hexadecimal digit.
C29_HexRoundTrip ==
    LET Lower == (48..57) \cup (97..102)
        Digits == Lower \cup (65..70)
    IN  /\ last.op = "hexString" =>
               LET b == last.args[1].val IN
               /\ last.excp = NoExc
               /\ Len(last.ret.chars) = 2 * Len(b)
               /\ \A i \in 1..Len(last.ret.chars) : last.ret.chars[i] \in Lower
               /\ hexStringToByteArray(last.ret.chars) = [kind |-> "list", val |-> b]
        /\ (/\ last.op = "hexStringToByteArray"
            /\ \/ Len(last.args[1]) % 2 = 1
               \/ \E i \in 1..Len(last.args[1]) : last.args[1][i] \notin Digits) =>
               last.excp.type = "ValueError"

\* C30: asAsciiString returns None for an input of length 0 and for an input
\* with a character that is not printable other than trailing \00 padding,
\* and accepts (does not return None for) an input of one or more printable
\* characters that may be right padded with \00 bytes.
C30_PaddedAsciiIsAccepted ==
    last.op = "asAsciiString" =>
        LET s == last.args[1]
            Padded == \E n \in 1..Len(s) :
                          /\ \A i \in 1..n : s[i] >= 32 /\ s[i] < 127
                          /\ \A i \in (n + 1)..Len(s) : s[i] = 0
        IN  /\ Len(s) = 0 => last.ret = NoRet
            /\ Padded => last.ret # NoRet
            /\ (Len(s) > 0 /\ ~Padded) => last.ret = NoRet

====
